---- MODULE Spec2Model ----
(***************************************************************************)
(* Model of the request construction engine of the CalDAV tester           *)
(* (src/src/request.py): digest authentication with its per-user challenge *)
(* cache and the class-level nonce-count table, request-URI placeholder    *)
(* resolution, and directory iteration over request bodies.                *)
(*                                                                         *)
(* Text is modelled as a sequence of one-character strings.  The hash      *)
(* functions are uninterpreted: a digest is the tuple of the hash name and *)
(* the text fed to it.  A uuid4() is one fresh symbol "U<k>".              *)
(***************************************************************************)
EXTENDS Integers, Sequences, FiniteSets, TLC

VARIABLES
    now,          \* time.time(), in seconds
    ticks,        \* number of clock advances so far (bounds the run)
    digestCache,  \* manager.digestCache: effective user -> challenge details
    nc,           \* request.nc: nonce -> count, one table for the class
    uuidNext,     \* number of uuid4() values generated so far
    openConns,    \* probe connections opened and not yet closed
    built,        \* history: nonce -> number of qop-bearing headers returned
    calls,        \* number of gethttpdigestauth calls so far (bounds the run)
    last,         \* record of the last gethttpdigestauth call
    ruri,         \* request.ruri of each request object
    count,        \* request.count of each request object
    extra,        \* server_info extra substitutions: token -> text
    lastURI,      \* record of the last getURI call
    dir,          \* the names in the directory request.getFilePath() names
    dataList,     \* request.dataList, the iteration cursor, when it exists
    nextpath,     \* request.data.nextpath, the pinned path, when it exists
    lastNext,     \* record of the last getNextData call
    yielded,      \* history: the names pinned since the cursor was created
    lastHas,      \* record of the last hasNextData call
    vargs,        \* verify.args of the verify object: name -> list of texts
    gargs,        \* generator.args of the generator object
    lastPlug,     \* record of the last doVerify or doGenerate call
    pargs,        \* history: the arguments as parseArgXML stored them
    data,         \* request.data, the body the request declares, if any
    lastData,     \* record of the last getData call
    features,     \* manager.server_info.features
    gate,         \* require_features and exclude_features of each object
    gateOut,      \* what missingFeatures and excludedFeatures last returned
    respIn,       \* the arguments of a direct calcResponse call
    respOut,      \* what that call gave, once it is made
    parseIn,      \* the WWW-Authenticate headers of a direct parse
    parseOut,     \* what parsing them gave, once it is done
    pc,           \* position of each concurrent executor in the nc update
    seen,         \* the value each concurrent executor last read from nc
    issued,       \* history: the nonce and nc of each executor's headers
    headers,      \* request.headers of each request object: name -> text
    lastHeaders,  \* record of the last getHeaders call
    pheaders      \* history: the headers as parseXML stored them

digestVars == <<now, ticks, digestCache, nc, openConns, built, calls, last>>
dataVars == <<dir, dataList, nextpath, lastNext, yielded, lastHas>>
plugVars == <<vargs, gargs, lastPlug, pargs>>
bodyVars == <<data, lastData>>
featureVars == <<features, gate, gateOut>>
respVars == <<respIn, respOut>>
parseVars == <<parseIn, parseOut>>
raceVars == <<pc, seen, issued>>
hdrVars == <<headers, lastHeaders, pheaders>>
lateVars == <<parseVars, raceVars, hdrVars>>
auxVars == <<plugVars, bodyVars, featureVars, respVars, lateVars>>
vars == <<digestVars, uuidNext, ruri, count, extra, lastURI, dataVars,
          auxVars>>

-----------------------------------------------------------------------------
(* Bounds of the model *)

MaxTicks == 2
MaxCalls == 2
MaxNc == 2
MaxUuid == 5
MaxUriLen == 5
MaxCount == 10
MaxFresh == 2
MaxDirSize == 3
MaxReps == 3
MaxBuilds == 2

(* Program constants *)

NonceLifetime == 600
NcWidth == 8

None == "None"
NoText == <<>>     \* None where the value, when present, is text
DefaultCnonce == "D4AAE4FF-ADA1-4149-BFE2-B506F9264318"

-----------------------------------------------------------------------------
(* Python string primitives on sequences of characters *)

Min(S) == CHOOSE x \in S : \A y \in S : x <= y

\* s.startswith(pat) at 1-based position i
MatchAt(s, pat, i) ==
    /\ i + Len(pat) - 1 <= Len(s)
    /\ SubSeq(s, i, i + Len(pat) - 1) = pat

\* s.find(pat): 0-based index of the first occurrence, -1 when there is none
Find(s, pat) ==
    LET hits == {i \in 1..Len(s) : MatchAt(s, pat, i)}
    IN  IF hits = {} THEN -1 ELSE Min(hits) - 1

\* pat in s
Contains(s, pat) == Find(s, pat) # -1

\* s.replace(pat, rep): every non-overlapping occurrence, scanning from the left
RECURSIVE Replace(_, _, _)
Replace(s, pat, rep) ==
    IF Len(s) < Len(pat) THEN s
    ELSE IF MatchAt(s, pat, 1)
         THEN rep \o Replace(SubSeq(s, Len(pat) + 1, Len(s)), pat, rep)
         ELSE <<Head(s)>> \o Replace(Tail(s), pat, rep)

DecDigits == <<"0", "1", "2", "3", "4", "5", "6", "7", "8", "9">>
HexDigits == DecDigits \o <<"a", "b", "c", "d", "e", "f">>

\* the digits of n in the given base, most significant first
RECURSIVE Numeral(_, _, _)
Numeral(n, base, digits) ==
    IF n < base THEN <<digits[n + 1]>>
    ELSE Numeral(n \div base, base, digits) \o <<digits[(n % base) + 1]>>

\* str(n) for n >= 0
Str(n) == Numeral(n, 10, DecDigits)

\* "%08x" % n: lowercase hex, left-padded with zeros to 8 characters
Hex8(n) ==
    LET h == Numeral(n, 16, HexDigits)
    IN  [i \in 1..(IF Len(h) < NcWidth THEN NcWidth - Len(h) ELSE 0) |-> "0"] \o h

\* str(uuid.uuid4()): the k-th identifier generated in this run
Uuid4(k) == <<"U" \o ToString(k)>>

-----------------------------------------------------------------------------
(* server_info.extrasubs: textual replacement of captured tokens *)

RECURSIVE extrasubs(_, _)
extrasubs(text, ex) ==
    IF text = <<>> THEN <<>>
    ELSE IF Head(text) \in DOMAIN ex
         THEN ex[Head(text)] \o extrasubs(Tail(text), ex)
         ELSE <<Head(text)>> \o extrasubs(Tail(text), ex)

-----------------------------------------------------------------------------
(* request.getURI *)

\* the guard shared by both placeholder branches: no '?' or '?' after the
\* first occurrence of the placeholder
BeforeQuery(uri, ph) ==
    \/ ~Contains(uri, <<"?">>)
    \/ Find(uri, <<"?">>) > Find(uri, ph)

\* mutant: only the first placeholder is replaced
getURIFirstOnly(template, cnt, ex, uuid) ==
    LET uri == extrasubs(template, ex)
        First(ph, rep) ==
            LET i == Find(uri, ph)
            IN  SubSeq(uri, 1, i) \o rep \o SubSeq(uri, i + Len(ph) + 1, Len(uri))
    IN  IF Contains(uri, <<"*", "*">>)
        THEN IF BeforeQuery(uri, <<"*", "*">>)
             THEN First(<<"*", "*">>, uuid)
             ELSE uri
        ELSE IF Contains(uri, <<"#", "#">>)
             THEN IF BeforeQuery(uri, <<"#", "#">>)
                  THEN First(<<"#", "#">>, Str(cnt))
                  ELSE uri
             ELSE uri

\* mutant: the '##' branch is an 'if' of its own, tried after the '**' branch
getURIBothKinds(template, cnt, ex, uuid) ==
    LET uri == extrasubs(template, ex)
        uri1 == IF Contains(uri, <<"*", "*">>) /\ BeforeQuery(uri, <<"*", "*">>)
                THEN Replace(uri, <<"*", "*">>, uuid)
                ELSE uri
    IN  IF Contains(uri1, <<"#", "#">>) /\ BeforeQuery(uri1, <<"#", "#">>)
        THEN Replace(uri1, <<"#", "#">>, Str(cnt))
        ELSE uri1

\* getURI with the request's template and count, the extra substitutions and
\* the identifier uuid4() returns if it is called
getURI(template, cnt, ex, uuid) ==
    LET uri == extrasubs(template, ex)
    IN  IF Contains(uri, <<"*", "*">>)
        THEN IF BeforeQuery(uri, <<"*", "*">>)
             THEN Replace(uri, <<"*", "*">>, uuid)
             ELSE uri
        ELSE IF Contains(uri, <<"#", "#">>)
             THEN IF BeforeQuery(uri, <<"#", "#">>)
                  THEN Replace(uri, <<"#", "#">>, Str(cnt))
                  ELSE uri
             ELSE uri

\* whether getURI calls uuid4() for this template
UsesUuid(template, ex) ==
    LET uri == extrasubs(template, ex)
    IN  Contains(uri, <<"*", "*">>) /\ BeforeQuery(uri, <<"*", "*">>)

-----------------------------------------------------------------------------
(* The requests of the run and the server's defaults *)

Requests == {1, 2}
SiUser == "admin"
SiPswd == "admin"
ReqUser == <<"", "user02">>
ReqPswd == <<"", "pw02">>
ReqMethod == <<"GET", "PUT">>
DigestRuris == << <<"a">>, <<"*", "*">> >>

Users == {SiUser, "user02"}

\* the module-level table 'algorithms': name -> hash constructor
algorithms == [a \in {"md5", "md5-sess", "sha"} |->
                  IF a = "sha" THEN "sha1" ELSE "md5"]

NoEntry == [present |-> FALSE]

\* the two servers of the configuration: si.host, si.port, si.afunix and
\* si.host2, si.port2, si.afunix2
Server1 == [host |-> "host1", port |-> "8008", afunix |-> None]
Server2 == [host |-> "host2", port |-> "8108", afunix |-> None]

\* whether the request element carries host2="yes"
ReqHost2 == <<FALSE, TRUE>>

\* self.host, self.port, self.afunix: set from the first server in __init__,
\* from the second by parseXML when host2 is configured
RequestTarget(r) == IF ReqHost2[r] THEN Server2 ELSE Server1

\* SmartHTTPConnection(si.host, si.port, si.ssl, si.afunix)
ProbeTarget(r) == Server1

\* [self.user, si.user][self.user == ""]
EffectiveUser(r) == IF ReqUser[r] = "" THEN SiUser ELSE ReqUser[r]
EffectivePswd(r) == IF ReqPswd[r] = "" THEN SiPswd ELSE ReqPswd[r]

-----------------------------------------------------------------------------
(* Digest computation: calcHA1 and calcResponse over an uninterpreted hash *)

\* m = algorithms[alg](); m.update(x1); ...; m.digest().encode('hex')
Hash(alg, parts) == <<"hex", algorithms[alg], parts>>

\* a value Python takes for true in a condition: not None, not empty
Truthy(x) == x \notin {None, ""}

\* the exception calcHA1 raises, if any: the algorithm is looked up first, and
\* update() takes text only
calcHA1Raises(pszAlg, pszUserName, pszRealm, pszPassword, pszNonce, pszCNonce) ==
    IF pszAlg \notin DOMAIN algorithms THEN "KeyError"
    ELSE IF None \in {pszUserName, pszRealm, pszPassword} THEN "TypeError"
    ELSE IF pszAlg = "md5-sess" /\ None \in {pszNonce, pszCNonce}
    THEN "TypeError"
    ELSE "none"

calcHA1(pszAlg, pszUserName, pszRealm, pszPassword, pszNonce, pszCNonce) ==
    LET HA1 == Hash(pszAlg, <<pszUserName, ":", pszRealm, ":", pszPassword>>)
    IN  IF pszAlg = "md5-sess"
        THEN Hash(pszAlg, <<HA1, ":", pszNonce, ":", pszCNonce>>)
        ELSE HA1

\* the exception calcResponse raises, if any
calcResponseRaises(HA1, algo, pszNonce, pszNonceCount, pszCNonce, pszQop, pszMethod, pszDigestUri, pszHEntity) ==
    IF algo \notin DOMAIN algorithms THEN "KeyError"
    ELSE IF pszQop = "auth-int" /\ pszHEntity = None THEN "TypeError"
    ELSE IF pszNonce = None THEN "TypeError"
    ELSE "none"

\* mutant: the long form is chosen on the qop alone
calcResponseQopOnly(HA1, algo, pszNonce, pszNonceCount, pszCNonce, pszQop, pszMethod, pszDigestUri, pszHEntity) ==
    LET HA2 == Hash(algo, <<pszMethod, ":", pszDigestUri>>
                          \o (IF pszQop = "auth-int"
                              THEN <<":", pszHEntity>> ELSE <<>>))
    IN  Hash(algo, <<HA1, ":", pszNonce, ":">>
                   \o (IF Truthy(pszQop)
                       THEN <<pszNonceCount, ":", pszCNonce, ":", pszQop, ":">>
                       ELSE <<>>)
                   \o <<HA2>>)

calcResponse(HA1, algo, pszNonce, pszNonceCount, pszCNonce, pszQop, pszMethod, pszDigestUri, pszHEntity) ==
    LET HA2 == Hash(algo, <<pszMethod, ":", pszDigestUri>>
                          \o (IF pszQop = "auth-int"
                              THEN <<":", pszHEntity>> ELSE <<>>))
    IN  Hash(algo, <<HA1, ":", pszNonce, ":">>
                   \o (IF pszNonceCount # NoText /\ Truthy(pszCNonce) /\ Truthy(pszQop)
                       THEN <<pszNonceCount, ":", pszCNonce, ":", pszQop, ":">>
                       ELSE <<>>)
                   \o <<HA2>>)

-----------------------------------------------------------------------------
(* The digest probe *)

\* quote(path): '*' is percent-encoded, letters, digits and '-' are safe
RECURSIVE quote(_)
quote(path) ==
    IF path = <<>> THEN <<>>
    ELSE (IF Head(path) = "*" THEN <<"%", "2", "A">> ELSE <<Head(path)>>)
         \o quote(Tail(path))

\* urlunparse(urlparse(uri) with the path quoted): the fragment is cut at the
\* first '#', the query at the first '?', and an empty query or fragment is
\* dropped together with its delimiter
ProbeURI(uri) ==
    LET h == Find(uri, <<"#">>)
        nofrag == IF h = -1 THEN uri ELSE SubSeq(uri, 1, h)
        frag == IF h = -1 THEN <<>> ELSE SubSeq(uri, h + 2, Len(uri))
        q == Find(nofrag, <<"?">>)
        path == IF q = -1 THEN nofrag ELSE SubSeq(nofrag, 1, q)
        query == IF q = -1 THEN <<>> ELSE SubSeq(nofrag, q + 2, Len(nofrag))
    IN  quote(path)
        \o (IF query # <<>> THEN <<"?">> \o query ELSE <<>>)
        \o (IF frag # <<>> THEN <<"#">> \o frag ELSE <<>>)

\* what the server side of a probe can do: the challenges it hands out, with
\* or without qop and algorithm, under one nonce or another
Challenge(n, q, a) == [realm |-> "r1", nonce |-> n, qop |-> q, algorithm |-> a]
Challenges == {Challenge("n1", "auth", None), Challenge("n1", "auth", "MD5"),
               Challenge("n2", "auth", "md5"), Challenge("n2", None, None)}
BasicItem == [scheme |-> "Basic"]
DigestItem(s, c) == [scheme |-> s, challenge |-> c]
HeaderLists == {<<>>, <<BasicItem>>}
               \cup {<<DigestItem("Digest", c)>> : c \in Challenges}
               \cup {<<BasicItem, DigestItem("DIGEST", Challenge("n1", "auth", None)),
                       DigestItem("Digest", Challenge("n2", None, None))>>}
ProbeOutcomes ==
    {[kind |-> "send_failed"], [kind |-> "read_failed"]}
    \cup {[kind |-> "answered", status |-> 200, headers |-> hs] :
             hs \in {<<>>, <<DigestItem("Digest", Challenge("n1", "auth", None))>>}}
    \cup {[kind |-> "answered", status |-> 401, headers |-> hs] : hs \in HeaderLists}
ProbeDelays == {0, 1}

\* mutant: a failed probe is attempted a second time
ProbeEventsRetry(po) ==
    IF po.kind = "answered"
    THEN <<"open", "request", "getresponse", "close">>
    ELSE <<"open", "request", "close", "open", "request", "close">>

\* mutant: the connection is closed only after an answer, not in a finally
ProbeEventsNoFinally(po) ==
    <<"open", "request">>
    \o (IF po.kind = "send_failed" THEN <<>> ELSE <<"getresponse">>)
    \o (IF po.kind = "answered" THEN <<"close">> ELSE <<>>)

\* the calls made on the probe connection, in order; the close is in a
\* finally clause
ProbeEvents(po) ==
    <<"open", "request">>
    \o (IF po.kind = "send_failed" THEN <<>> ELSE <<"getresponse">>)
    \o <<"close">>

\* whether the probe raised out of the try block
ProbeRaised(po) == po.kind \in {"send_failed", "read_failed"}

\* item.lower().startswith("digest ")
IsDigestItem(item) == item.scheme \in {"Digest", "DIGEST"}

\* mutant: the status of the probe response is not looked at
ParseChallengeAnyStatus(po, t) ==
    IF po.kind = "answered"
       /\ \E i \in 1..Len(po.headers) : IsDigestItem(po.headers[i])
    THEN LET i == Min({j \in 1..Len(po.headers) : IsDigestItem(po.headers[j])})
             c == po.headers[i].challenge
         IN  [present |-> TRUE, realm |-> c.realm, nonce |-> c.nonce,
              qop |-> c.qop, algorithm |-> c.algorithm,
              cnonce |-> None, nc |-> NoText,
              expiry |-> t + NonceLifetime]
    ELSE NoEntry

\* the loop over the WWW-Authenticate headers of a 401: the details parsed
\* from the first digest item, with its expiry, or None
ParseChallenge(po, t) ==
    IF po.kind = "answered" /\ po.status = 401
       /\ \E i \in 1..Len(po.headers) : IsDigestItem(po.headers[i])
    THEN LET i == Min({j \in 1..Len(po.headers) : IsDigestItem(po.headers[j])})
             c == po.headers[i].challenge
         IN  [present |-> TRUE, realm |-> c.realm, nonce |-> c.nonce,
              qop |-> c.qop, algorithm |-> c.algorithm,
              cnonce |-> None, nc |-> NoText,
              expiry |-> t + NonceLifetime]
    ELSE NoEntry

\* mutant: a challenge is still reused at the instant it expires
CacheHitInclusive(cache, user, t) ==
    /\ cache[user].present
    /\ cache[user].expiry >= t

\* user in digestCache and digestCache[user]["max-nonce-time"] > time.time()
CacheHit(cache, user, t) ==
    /\ cache[user].present
    /\ cache[user].expiry > t

-----------------------------------------------------------------------------
(* request.gethttpdigestauth *)

NoHeader == [present |-> FALSE]
NoCall == [req |-> 0]
NoProbe == [kind |-> "none"]

\* mutant: the count of a nonce starts over instead of going up
NcBumpReset(table, nonce) ==
    IF nonce \in DOMAIN table
    THEN [table EXCEPT ![nonce] = 1]
    ELSE table @@ (nonce :> 1)

\* self.nc after the count of a nonce has been taken for a header
NcBump(table, nonce) ==
    IF nonce \in DOMAIN table
    THEN [table EXCEPT ![nonce] = @ + 1]
    ELSE table @@ (nonce :> 1)

\* the qop branch ahead of the digest: the table and the details afterwards
TakeNonceCount(table, details) ==
    IF details.qop # None
    THEN LET t2 == NcBump(table, details.nonce)
         IN  [nc |-> t2,
              details |-> [details EXCEPT
                              !.nc = Hex8(t2[details.nonce]),
                              !.cnonce = IF @ = None THEN DefaultCnonce ELSE @]]
    ELSE [nc |-> table, details |-> details]

\* the Authorization value built from the details, the digest and the URI of
\* the header's own getURI call
FormatHeader(user, d, digest, uri) ==
    IF d.qop # None
    THEN [present |-> TRUE, username |-> user, realm |-> d.realm,
          nonce |-> d.nonce, uri |-> uri, response |-> digest,
          algorithm |-> IF d.algorithm = None THEN "md5" ELSE d.algorithm,
          cnonce |-> d.cnonce, qop |-> d.qop, nc |-> d.nc]
    ELSE [present |-> TRUE, username |-> user, realm |-> d.realm,
          nonce |-> d.nonce, uri |-> uri, response |-> digest,
          algorithm |-> d.algorithm,
          cnonce |-> None, qop |-> None, nc |-> NoText]

\* what a call finds cached for its user: the challenge and its expiry
Cached(entry) ==
    IF entry.present
    THEN [present |-> TRUE, realm |-> entry.realm, nonce |-> entry.nonce,
          expiry |-> entry.expiry]
    ELSE NoEntry

\* What one call of gethttpdigestauth by request r changes.  po and delay are
\* what the probe meets if one is made: its outcome and the time it takes.
DigestSteps(r, po, delay) ==
    LET user == EffectiveUser(r)
        pswd == EffectivePswd(r)
        hit == CacheHit(digestCache, user, now)
        uses == UsesUuid(ruri[r], extra)
        \* uuid4() calls are numbered in the order the code makes them
        probeUuid == uuidNext + 1
        afterProbe == IF ~hit /\ uses THEN uuidNext + 1 ELSE uuidNext
        events == IF hit THEN <<>> ELSE ProbeEvents(po)
        raised == ~hit /\ ProbeRaised(po)
        parsed == IF hit THEN digestCache[user]
                  ELSE ParseChallenge(po, now + delay)
        \* time.time() is read again only when a challenge is captured
        t2 == IF ~hit /\ ~ProbeRaised(po) /\ parsed.present
              THEN now + delay ELSE now
        cache1 == IF ~hit /\ ~raised /\ parsed.present
                  THEN [digestCache EXCEPT ![user] = parsed]
                  ELSE digestCache
        haveDetails == ~raised /\ parsed.present
        taken == IF haveDetails THEN TakeNonceCount(nc, parsed)
                 ELSE [nc |-> nc, details |-> parsed]
        d == taken.details
        \* the details object is the cached object: its updates show in the cache
        cache2 == IF haveDetails THEN [cache1 EXCEPT ![user] = d] ELSE cache1
        alg == IF haveDetails /\ d.algorithm # None THEN d.algorithm ELSE "md5"
        known == alg \in DOMAIN algorithms
        \* calcHA1 is evaluated first, as an argument of calcResponse
        raisedHA1 == calcHA1Raises(alg, user, d.realm, pswd, d.nonce, d.cnonce)
        raisedBuild == IF raisedHA1 # "none" THEN raisedHA1
                       ELSE calcResponseRaises(None, alg, d.nonce, d.nc,
                                               d.cnonce, d.qop, ReqMethod[r],
                                               <<>>, None)
        ok == haveDetails /\ raisedBuild = "none"
        digestUri == getURI(ruri[r], count[r], extra, Uuid4(afterProbe + 1))
        headerUri == getURI(ruri[r], count[r], extra, Uuid4(afterProbe + 2))
        digest == calcResponse(
                      calcHA1(alg, user, d.realm, pswd, d.nonce, d.cnonce),
                      alg, d.nonce, d.nc, d.cnonce, d.qop,
                      ReqMethod[r], digestUri, None)
        header == IF ok THEN FormatHeader(user, d, digest, headerUri)
                  ELSE NoHeader
        outcome == IF raised THEN "transport_error"
                   ELSE IF ~haveDetails THEN "empty"
                   ELSE IF ~known THEN "algorithm_error"
                   ELSE IF ~ok THEN "type_error"
                   ELSE "header"
        uuidEnd == IF ok /\ uses THEN afterProbe + 2 ELSE afterProbe
    IN  /\ calls < MaxCalls
        /\ calls' = calls + 1
        /\ ticks + (t2 - now) <= MaxTicks
        /\ uuidEnd <= MaxUuid
        /\ \A n \in DOMAIN taken.nc : taken.nc[n] <= MaxNc
        /\ now' = t2
        /\ ticks' = ticks + (t2 - now)
        /\ digestCache' = cache2
        /\ nc' = taken.nc
        /\ uuidNext' = uuidEnd
        /\ openConns' = openConns
                        + Cardinality({i \in 1..Len(events) : events[i] = "open"})
                        - Cardinality({i \in 1..Len(events) : events[i] = "close"})
        /\ built' = IF ok /\ d.qop # None
                    THEN NcBump(built, d.nonce) ELSE built
        /\ last' = [req |-> r, user |-> user, start |-> now, end |-> t2,
                    po |-> IF hit THEN NoProbe ELSE po,
                    cachedBefore |-> Cached(digestCache[user]),
                    ncBefore |-> nc, cacheChanged |-> cache2 # digestCache,
                    events |-> events, outcome |-> outcome,
                    probeUri |-> IF hit THEN <<>>
                                 ELSE ProbeURI(getURI(ruri[r], count[r], extra,
                                                      Uuid4(probeUuid))),
                    probeMethod |-> IF hit THEN None ELSE "OPTIONS",
                    probeHeaders |-> {},
                    probeTarget |-> IF hit THEN None ELSE ProbeTarget(r),
                    digestUri |-> IF ok THEN digestUri ELSE <<>>,
                    header |-> header]

\* one call of gethttpdigestauth by request r, made on its own
DigestCall(r, po, delay) ==
    /\ DigestSteps(r, po, delay)
    /\ UNCHANGED <<ruri, count, extra, lastURI, dataVars, auxVars>>

\* a call either finds a live challenge and makes no probe, or probes and
\* meets one of the outcomes; only a captured challenge reads the clock again
GetHttpDigestAuth(r) ==
    IF CacheHit(digestCache, EffectiveUser(r), now)
    THEN DigestCall(r, NoProbe, 0)
    ELSE \E po \in ProbeOutcomes :
             \E delay \in (IF ParseChallenge(po, now).present
                            THEN ProbeDelays ELSE {0}) :
                 DigestCall(r, po, delay)

\* time passes between requests
TickSteps == {1, 599}
Tick ==
    /\ ticks < MaxTicks
    /\ \E d \in TickSteps : now' = now + d
    /\ ticks' = ticks + 1
    /\ UNCHANGED <<digestCache, nc, uuidNext, openConns, built, calls, last,
                   ruri, count, extra, lastURI, dataVars, auxVars>>

NoURI == [req |-> 0]
EmptyMap == [x \in {} |-> <<>>]

Absent == [present |-> FALSE]
Present(v) == [present |-> TRUE, value |-> v]

\* the state after construction: an empty digest cache and nonce-count table,
\* no call made yet
InitDigest ==
    /\ now = 0
    /\ ticks = 0
    /\ digestCache = [u \in Users |-> NoEntry]
    /\ nc = [n \in {} |-> 0]
    /\ uuidNext = 0
    /\ openConns = 0
    /\ built = [n \in {} |-> 0]
    /\ calls = 0
    /\ last = NoCall
    /\ count = [r \in Requests |-> 1]
    /\ extra = EmptyMap
    /\ lastURI = NoURI

\* no verify or generator object in play
NoArgs == [x \in {} |-> <<>>]
NoPlug == [kind |-> "none"]
InitPlug ==
    /\ vargs = NoArgs
    /\ gargs = NoArgs
    /\ lastPlug = NoPlug
    /\ pargs = NoArgs

\* a request that declares no body
NoData == [declared |-> FALSE]
NoGetData == [req |-> 0]
InitBody ==
    /\ data = NoData
    /\ lastData = NoGetData

\* the objects that carry a feature gate
Owners == {"request", "verify", "testsuite"}
NoGateOut == [o \in Owners |-> [missing |-> Absent, excluded |-> Absent]]
InitFeatures ==
    /\ features = {}
    /\ gate = [o \in Owners |-> [require |-> {}, exclude |-> {}]]
    /\ gateOut = NoGateOut

\* no direct calcResponse call
NoRespIn == [given |-> FALSE]
InitResp ==
    /\ respIn = NoRespIn
    /\ respOut = Absent

\* no direct parse of a challenge
NoParseIn == [given |-> FALSE]
InitParse ==
    /\ parseIn = NoParseIn
    /\ parseOut = Absent

\* no concurrent executor in play
Executors == {1, 2}
InitRace ==
    /\ pc = [e \in Executors |-> "idle"]
    /\ seen = [e \in Executors |-> Absent]
    /\ issued = [e \in Executors |-> <<>>]

\* requests that declare no header
NoHeaders == [r \in Requests |-> EmptyMap]
NoGetHeaders == [req |-> 0]
InitHdr ==
    /\ headers = NoHeaders
    /\ lastHeaders = NoGetHeaders
    /\ pheaders = NoHeaders

InitLate == InitParse /\ InitRace /\ InitHdr

InitAux == InitPlug /\ InitBody /\ InitFeatures /\ InitResp /\ InitLate

\* no cursor and no pinned path
InitCursor ==
    /\ dataList = Absent
    /\ nextpath = Absent
    /\ lastNext = [called |-> FALSE]
    /\ yielded = <<>>
    /\ lastHas = [called |-> FALSE]

Init ==
    /\ InitDigest
    /\ InitCursor
    /\ InitAux
    /\ ruri = DigestRuris
    /\ dir = {}

Next ==
    \/ \E r \in Requests : GetHttpDigestAuth(r)
    \/ Tick

Spec == Init /\ [][Next]_vars

-----------------------------------------------------------------------------
(* Properties of gethttpdigestauth, over the record of the last call *)

Called == last.req # 0
Probed == Called /\ last.events # <<>>
Occurrences(events, e) == Cardinality({i \in 1..Len(events) : events[i] = e})
ReachedBuild ==
    Called /\ last.outcome \in {"header", "algorithm_error", "type_error"}
\* the challenge the last call worked with, when it reached the header build
UsedDetails == digestCache[last.user]

C2_NcIsOrdinalOfHeader ==
    (Called /\ last.header.present /\ last.header.qop # None) =>
        last.header.nc = Hex8(built[last.header.nonce])

\* C3: the nonce-count table is one table for all requests and users: a call
\* never removes or lowers an entry, a build with qop raises the entry of its
\* nonce by exactly one and touches no other, and any other call leaves the
\* table as it was.
C3_SharedMonotoneTable ==
    Called =>
        /\ DOMAIN last.ncBefore \subseteq DOMAIN nc
        /\ \A n \in DOMAIN last.ncBefore : nc[n] >= last.ncBefore[n]
        /\ (ReachedBuild /\ UsedDetails.qop # None) =>
               LET n == UsedDetails.nonce
               IN  /\ n \in DOMAIN nc
                   /\ nc[n] = (IF n \in DOMAIN last.ncBefore
                               THEN last.ncBefore[n] ELSE 0) + 1
                   /\ DOMAIN nc = DOMAIN last.ncBefore \cup {n}
                   /\ \A m \in DOMAIN last.ncBefore \ {n} :
                          nc[m] = last.ncBefore[m]
        /\ ~(ReachedBuild /\ UsedDetails.qop # None) => nc = last.ncBefore

\* two users hold the same nonce and the second user's header takes count 2
C3_Witness ==
    /\ Called
    /\ last.header.present
    /\ last.header.qop # None
    /\ \E u \in Users \ {last.user} :
           /\ digestCache[u].present
           /\ digestCache[u].nonce = last.header.nonce
    /\ last.header.nonce \in DOMAIN last.ncBefore
    /\ nc[last.header.nonce] = 2

\* the probe was answered without a usable digest challenge
NoChallenge(po) ==
    /\ po.kind = "answered"
    /\ \/ po.status # 401
       \/ \A i \in 1..Len(po.headers) : ~IsDigestItem(po.headers[i])

\* C4: a probe answered without a 401 digest challenge gives the empty
\* Authorization value, leaves the digest cache and the nonce-count table
\* unchanged, and the user's next digest request probes again.
C4_NoChallengeNoAuth ==
    (Called /\ NoChallenge(last.po)) =>
        /\ last.outcome = "empty"
        /\ ~last.header.present
        /\ ~last.cacheChanged
        /\ nc = last.ncBefore
        /\ ~CacheHit(digestCache, last.user, now)

\* a 200 answer that carries a digest challenge, met by a user whose cached
\* challenge has expired
C4_Witness ==
    /\ Called
    /\ NoChallenge(last.po)
    /\ last.po.headers # <<>>
    /\ last.cachedBefore.present

\* C5: a transport error in the probe is not retried, propagates, returns no
\* Authorization value and leaves the digest cache and the nonce-count table
\* as they were.
C5_TransportErrorPropagates ==
    (Called /\ last.po.kind \in {"send_failed", "read_failed"}) =>
        /\ last.outcome = "transport_error"
        /\ ~last.header.present
        /\ Occurrences(last.events, "request") = 1
        /\ Occurrences(last.events, "open") = 1
        /\ ~last.cacheChanged
        /\ nc = last.ncBefore

\* the response could not be read, with a challenge cached and counts taken
C5_Witness ==
    /\ Called
    /\ last.po.kind = "read_failed"
    /\ last.cachedBefore.present
    /\ nc # [n \in {} |-> 0]

\* C6: every probe connection is closed exactly once before the call ends,
\* whether the probe was answered or failed.
C6_ProbeConnectionClosed ==
    /\ openConns = 0
    /\ Probed =>
           /\ Occurrences(last.events, "open") = 1
           /\ Occurrences(last.events, "close") = 1
           /\ last.events[Len(last.events)] = "close"

\* the request could not be sent and the connection was closed all the same
C6_Witness ==
    /\ Probed
    /\ last.po.kind = "send_failed"
    /\ Occurrences(last.events, "close") = 1

\* C8: within one header build the probe URI, the digest-uri and the uri=
\* field are the same resolved URI.
C8_OneResolvedUri ==
    (Called /\ last.header.present) =>
        /\ last.header.uri = last.digestUri
        /\ Probed => last.probeUri = last.digestUri

-----------------------------------------------------------------------------
(* URI resolution on its own: any template, repetition after repetition *)

UriAlphabet == {"a", "?", "*", "#"}
Templates == UNION {[1..n -> UriAlphabet] : n \in 0..MaxUriLen}
UriRequests == {1}

\* one getURI call by request r
GetURI(r) ==
    LET uses == UsesUuid(ruri[r], extra)
    IN  /\ uses => uuidNext < MaxFresh
        /\ uuidNext' = IF uses THEN uuidNext + 1 ELSE uuidNext
        /\ lastURI' = [req |-> r, template |-> ruri[r], count |-> count[r],
                       extra |-> extra,
                       out |-> getURI(ruri[r], count[r], extra,
                                      Uuid4(uuidNext + 1))]
        /\ UNCHANGED <<digestVars, ruri, count, extra, dataVars, auxVars>>

\* the caller moves on to the next repetition once this one's URI is resolved
NextRepetition(r) ==
    /\ lastURI.req = r
    /\ lastURI.count = count[r]
    /\ count[r] < MaxCount
    /\ count' = [count EXCEPT ![r] = @ + 1]
    /\ UNCHANGED <<digestVars, uuidNext, ruri, extra, lastURI, dataVars,
                   auxVars>>

InitURI ==
    /\ InitDigest
    /\ InitCursor
    /\ InitAux
    /\ \E t \in Templates :
           ruri = [r \in Requests |-> IF r \in UriRequests THEN t ELSE <<>>]
    /\ dir = {}

NextURI ==
    \/ \E r \in UriRequests : GetURI(r)
    \/ \E r \in UriRequests : NextRepetition(r)

SpecURI == InitURI /\ [][NextURI]_vars

\* the part of a URI after its first '?', or nothing when it has none
AfterQuery(uri) ==
    IF Contains(uri, <<"?">>)
    THEN SubSeq(uri, Find(uri, <<"?">>) + 2, Len(uri))
    ELSE <<>>

\* C7: getURI rewrites nothing after the first '?': the query part of the
\* result is the query part of the URI it was given.
C7_QueryNeverRewritten ==
    lastURI.req # 0 =>
        AfterQuery(lastURI.out) = AfterQuery(extrasubs(lastURI.template, extra))

\* the pieces of s between the occurrences of pat, found from the left
RECURSIVE Pieces(_, _)
Pieces(s, pat) ==
    IF ~Contains(s, pat) THEN <<s>>
    ELSE LET i == Find(s, pat)
         IN  <<SubSeq(s, 1, i)>> \o Pieces(SubSeq(s, i + Len(pat) + 1, Len(s)), pat)

\* the pieces put together again with sep between them
RECURSIVE Joined(_, _)
Joined(pieces, sep) ==
    IF Len(pieces) = 1 THEN pieces[1]
    ELSE pieces[1] \o sep \o Joined(Tail(pieces), sep)

\* the number a string of decimal digits stands for
DigitValue(c) == CHOOSE v \in 0..9 : DecDigits[v + 1] = c
RECURSIVE DecimalValue(_)
DecimalValue(d) ==
    IF Len(d) = 1 THEN DigitValue(d[1])
    ELSE 10 * DecimalValue(SubSeq(d, 1, Len(d) - 1)) + DigitValue(d[Len(d)])

\* the decimal text of n: digits only, no leading zero, of value n
IsDecimalOf(d, n) ==
    /\ Len(d) >= 1
    /\ \A i \in 1..Len(d) : \E v \in 0..9 : DecDigits[v + 1] = d[i]
    /\ Len(d) > 1 => d[1] # "0"
    /\ DecimalValue(d) = n

\* the URIs C9 is about: a '##', no '**', and no '?' before the first '##'
HashTemplate(uri) ==
    /\ Contains(uri, <<"#", "#">>)
    /\ ~Contains(uri, <<"*", "*">>)
    /\ \/ ~Contains(uri, <<"?">>)
       \/ Find(uri, <<"?">>) > Find(uri, <<"#", "#">>)

\* C9: for a URI with '##', no '**' and no '?' before the '##', getURI returns
\* the URI with every '##' replaced by the decimal text of the repetition
\* index at the time of the call, and the stored template is left as it was.
C9_HashIsRepetitionIndex ==
    (lastURI.req # 0 /\ HashTemplate(lastURI.template)) =>
        /\ \E len \in 1..2 : \E d \in [1..len -> {DecDigits[i] : i \in 1..10}] :
               /\ IsDecimalOf(d, lastURI.count)
               /\ lastURI.out = Joined(Pieces(lastURI.template, <<"#", "#">>), d)
        /\ ~Contains(lastURI.out, <<"#", "#">>)
        /\ ruri[lastURI.req] = lastURI.template
        /\ lastURI.count <= count[lastURI.req]

\* the tenth repetition of '##?##': both placeholders become "10"
C9_Witness ==
    /\ lastURI.req # 0
    /\ lastURI.template = <<"#", "#", "?", "#", "#">>
    /\ lastURI.count = 10
    /\ lastURI.out = <<"1", "0", "?", "1", "0">>

-----------------------------------------------------------------------------
(* Directory iteration: request.getNextData *)

\* the code points of the characters of file names
CharCode(c) == IF c = "." THEN 46 ELSE IF c = "a" THEN 97 ELSE 98

\* s < t for Python strings: by code point at the first difference, a proper
\* prefix first
StrLess(s, t) ==
    \/ /\ Len(s) < Len(t)
       /\ SubSeq(t, 1, Len(s)) = s
    \/ \E k \in 1..(IF Len(s) < Len(t) THEN Len(s) ELSE Len(t)) :
           /\ SubSeq(s, 1, k - 1) = SubSeq(t, 1, k - 1)
           /\ CharCode(s[k]) < CharCode(t[k])

\* x put in its place in an ascending list
RECURSIVE Insert(_, _)
Insert(x, sortedList) ==
    IF sortedList = <<>> THEN <<x>>
    ELSE IF StrLess(x, Head(sortedList)) THEN <<x>> \o sortedList
    ELSE <<Head(sortedList)>> \o Insert(x, Tail(sortedList))

\* mutant: the listing is used in the order the system returned it
unsorted(listing) == listing

\* sorted(listing)
RECURSIVE sorted(_)
sorted(listing) ==
    IF listing = <<>> THEN <<>>
    ELSE Insert(Head(listing), sorted(Tail(listing)))

\* [path for path in listing if not path.startswith(".")]
RECURSIVE NotHidden(_)
NotHidden(listing) ==
    IF listing = <<>> THEN <<>>
    ELSE (IF Head(listing)[1] = "." THEN <<>> ELSE <<Head(listing)>>)
         \o NotHidden(Tail(listing))

\* os.path.join(self.getFilePath(), name)
FilePath == <<"d">>
PathJoin(base, name) == base \o <<"/">> \o name

\* os.listdir: the names of the directory in an order the system chooses
Listings(d) ==
    {l \in [1..Cardinality(d) -> d] : \A i, j \in 1..Cardinality(d) :
                                          i # j => l[i] # l[j]}

\* one getNextData call; listing is what os.listdir returns if it is called
NextData(listing) ==
    LET fresh == ~dataList.present
        list == IF fresh THEN sorted(NotHidden(listing)) ELSE dataList.value
    IN  IF Len(list) # 0
        THEN /\ nextpath' = Present(PathJoin(FilePath, Head(list)))
             /\ dataList' = Present(Tail(list))
             /\ lastNext' = [called |-> TRUE, ret |-> TRUE, fresh |-> fresh]
             /\ yielded' = (IF fresh THEN <<>> ELSE yielded) \o <<Head(list)>>
        ELSE /\ nextpath' = Absent
             /\ dataList' = Absent
             /\ lastNext' = [called |-> TRUE, ret |-> FALSE, fresh |-> fresh]
             /\ yielded' = IF fresh THEN <<>> ELSE yielded

GetNextData ==
    /\ \E listing \in Listings(dir) : NextData(listing)
    /\ UNCHANGED <<digestVars, uuidNext, ruri, count, extra, lastURI, dir,
                   lastHas, auxVars>>

\* len(dataList) != 0 for the local list hasNextData builds from the listing
hasNextData(listing) == Len(sorted(NotHidden(listing))) # 0

\* mutant: the list is kept as the request's cursor
HasNextDataConsuming ==
    /\ \E listing \in Listings(dir) :
           /\ dataList' = Present(sorted(NotHidden(listing)))
           /\ lastHas' = [called |-> TRUE, ret |-> hasNextData(listing),
                          cursor |-> dataList, path |-> nextpath,
                          cursorAfter |-> Present(sorted(NotHidden(listing))),
                          pathAfter |-> nextpath]
    /\ UNCHANGED <<digestVars, uuidNext, ruri, count, extra, lastURI, dir,
                   nextpath, lastNext, yielded, auxVars>>

\* one hasNextData call: the directory is listed anew into a local
HasNextData ==
    /\ \E listing \in Listings(dir) :
           lastHas' = [called |-> TRUE, ret |-> hasNextData(listing),
                       cursor |-> dataList, path |-> nextpath,
                       cursorAfter |-> dataList, pathAfter |-> nextpath]
    /\ UNCHANGED <<digestVars, uuidNext, ruri, count, extra, lastURI, dir,
                   dataList, nextpath, lastNext, yielded, auxVars>>

\* the names a directory can hold: plain and hidden ones, one a prefix of
\* another; '.' and '..' are never listed
FileNames == {<<"a">>, <<"b">>, <<"a", "a">>, <<"a", "b">>, <<"b", "a">>,
              <<"a", ".">>, <<".", "a">>, <<".", "b">>}

InitData ==
    /\ InitDigest
    /\ InitCursor
    /\ InitAux
    /\ ruri = [r \in Requests |-> <<>>]
    /\ dir \in {d \in SUBSET FileNames : Cardinality(d) <= MaxDirSize}

NextDataStep ==
    \/ GetNextData
    \/ HasNextData

SpecData == InitData /\ [][NextDataStep]_vars

Visible(d) == {n \in d : n[1] # "."}

\* C10: from a fresh cursor on an unchanging directory the calls pin the
\* entries not starting with '.' one by one in ascending lexical order, none
\* skipped or repeated, and the call after the last of them returns False;
\* an entry starting with '.' is never pinned.
C10_IterationInLexicalOrder ==
    /\ \A i \in 1..Len(yielded) : yielded[i] \in Visible(dir)
    /\ \A i \in 1..(Len(yielded) - 1) : StrLess(yielded[i], yielded[i + 1])
    /\ nextpath.present =>
           /\ yielded # <<>>
           /\ nextpath.value = PathJoin(FilePath, yielded[Len(yielded)])
    /\ (lastNext.called /\ lastNext.ret) =>
           /\ nextpath.present
           /\ dataList.present
           /\ Len(yielded) + Len(dataList.value) = Cardinality(Visible(dir))
    /\ (lastNext.called /\ ~lastNext.ret) =>
           /\ {yielded[i] : i \in 1..Len(yielded)} = Visible(dir)
           /\ Len(yielded) = Cardinality(Visible(dir))
           /\ ~nextpath.present

\* a directory with two entries to pin and a hidden one, iterated to the end
C10_Witness ==
    /\ dir = {<<"b">>, <<"a", "b">>, <<".", "a">>}
    /\ lastNext.called
    /\ ~lastNext.ret
    /\ yielded = << <<"a", "b">>, <<"b">> >>

\* C11: once getNextData has returned False, the next call on the same request
\* and unchanged directory returns False again.
C11_ExhaustedStaysExhausted ==
    [][(lastNext.called /\ ~lastNext.ret)
           => (lastNext'.called /\ ~lastNext'.ret)]_vars

-----------------------------------------------------------------------------
(* The free-busy verifier: verifiers/postFreeBusy.py *)

\* args.get(name, [])
Get(args, name) == IF name \in DOMAIN args THEN args[name] ELSE <<>>

\* list.remove(v): the list without the first occurrence of v
RECURSIVE Remove(_, _)
Remove(list, v) ==
    IF list = <<>> THEN <<>>
    ELSE IF Head(list) = v THEN Tail(list)
    ELSE <<Head(list)>> \o Remove(Tail(list), v)

\* set(list)
ToSet(list) == {list[i] : i \in 1..Len(list)}

\* int(eval(text)) for the texts a configuration gives: a decimal numeral is
\* its value, a bare word is an undefined name
IsNumeral(text) ==
    /\ text # <<>>
    /\ \A i \in 1..Len(text) : \E v \in 0..9 : DecDigits[v + 1] = text[i]
EvalInt(text) ==
    IF IsNumeral(text) THEN [raised |-> FALSE, value |-> DecimalValue(text)]
    ELSE [raised |-> TRUE]

\* what verify gives back: a (passed, message) pair, or an exception that
\* leaves it; args is the mapping it was handed, as the call left it
Returned(passed, message, args) ==
    [raised |-> FALSE, passed |-> passed, message |-> message, args |-> args]
Raised(exc, args) == [raised |-> TRUE, exc |-> exc, args |-> args]

\* the periods of the FREEBUSY properties of one FBTYPE, in document order
RECURSIVE PeriodsOf(_, _)
PeriodsOf(fprops, fbtype) ==
    IF fprops = <<>> THEN <<>>
    ELSE (IF Head(fprops).fbtype = fbtype THEN Head(fprops).periods ELSE <<>>)
         \o PeriodsOf(Tail(fprops), fbtype)

FbTypes == {"BUSY", "BUSY-TENTATIVE", "BUSY-UNAVAILABLE"}

\* the first ATTENDEE value of the component that is among users, if any
FirstMatch(attendees, users) ==
    LET hits == {i \in 1..Len(attendees) : attendees[i] \in ToSet(users)}
    IN  IF hits = {} THEN Absent ELSE Present(attendees[Min(hits)])

\* the body of the loop over calendar-data objects for one object: the loop
\* goes on to the next object, or is left, or verify returns a failure
CheckCalendar(cal, users, busy, tentative, unavailable, events) ==
    LET match == FirstMatch(cal.attendees, users)
        users1 == IF match.present THEN Remove(users, match.value) ELSE users
        busyp == PeriodsOf(cal.fprops, "BUSY")
        tentativep == PeriodsOf(cal.fprops, "BUSY-TENTATIVE")
        unavailablep == PeriodsOf(cal.fprops, "BUSY-UNAVAILABLE")
        Invalid(txt, u) ==
            [kind |-> "return", users |-> u,
             message |-> <<"HTTP response data is invalid: ", txt>>]
    IN  IF cal.parse = "invalid"
        THEN [kind |-> "return", users |-> users,
              message |-> <<"HTTP response data is not a calendar">>]
        ELSE IF cal.parse = "error"
        THEN [kind |-> "return", users |-> users,
              message |-> <<"Response data is not calendar data: ">>]
        ELSE IF cal.parse = "none"
        THEN Invalid("Not a calendar: None", users)
        ELSE IF cal.fbs # 1
        THEN Invalid("Wrong number or unexpected components in calendar",
                     users)
        ELSE IF ~match.present
        THEN [kind |-> "continue", users |-> users]
        ELSE IF \E i \in 1..Len(cal.fprops) : cal.fprops[i].fbtype \notin FbTypes
        THEN Invalid("Unknown FBTYPE", users1)
        ELSE IF \/ Len(busy) # Len(busyp)
                \/ Len(unavailable) # Len(unavailablep)
                \/ Len(tentative) # Len(tentativep)
        THEN Invalid("Period list sizes do not match.", users1)
        ELSE IF ToSet(busyp) # ToSet(busy)
        THEN Invalid("Busy periods do not match", users1)
        ELSE IF ToSet(tentativep) # ToSet(tentative)
        THEN Invalid("Busy-tentative periods do not match", users1)
        ELSE IF ToSet(unavailablep) # ToSet(unavailable)
        THEN Invalid("Busy-unavailable periods do not match", users1)
        ELSE IF events.given /\ cal.vevents # events.value
        THEN Invalid("Number of VEVENTs does not match", users1)
        ELSE [kind |-> "break", users |-> users1]

\* for calendar in tree.findall(...): the objects in document order
RECURSIVE CalendarLoop(_, _, _, _, _, _)
CalendarLoop(cals, users, busy, tentative, unavailable, events) ==
    IF cals = <<>> THEN [kind |-> "break", users |-> users]
    ELSE LET step == CheckCalendar(Head(cals), users, busy, tentative,
                                   unavailable, events)
         IN  IF step.kind = "continue"
             THEN CalendarLoop(Tail(cals), users, busy, tentative,
                               unavailable, events)
             ELSE step

\* args with the attendee list as the loop left it; the list is the one
\* inside args when args has the key, a list of its own otherwise
WithUsers(args, users) ==
    IF "attendee" \in DOMAIN args THEN [args EXCEPT !["attendee"] = users]
    ELSE args

\* ElementTree(file=...) reports a body that is not well-formed XML with its
\* own ParseError, a SyntaxError; the handler names expat's ExpatError
ParseFailure == "ParseError"
Caught == {"ExpatError"}

\* Verifier.verify(manager, uri, response, respdata, args)
verify(status, body, args) ==
    LET users == Get(args, "attendee")
        given == Len(Get(args, "events")) = 1
        ev == IF given THEN EvalInt(Get(args, "events")[1])
              ELSE [raised |-> FALSE, value |-> 0]
        events == [given |-> given, value |-> IF ev.raised THEN 0 ELSE ev.value]
        loop == CalendarLoop(body.cals, users, Get(args, "busy"),
                             Get(args, "tentative"), Get(args, "unavailable"),
                             events)
    IN  IF status # 200
        THEN Returned(FALSE, <<"HTTP Status Code Wrong: ">> \o Str(status), args)
        ELSE IF ev.raised THEN Raised("NameError", args)
        ELSE IF ~body.xml
        THEN (IF ParseFailure \in Caught
              THEN Returned(FALSE, <<"Could not parse proper XML response">>,
                            args)
              ELSE Raised(ParseFailure, args))
        ELSE IF loop.kind = "return"
        THEN Returned(FALSE, loop.message, WithUsers(args, loop.users))
        ELSE IF Len(loop.users) # 0
        THEN Returned(FALSE,
                      <<"Could not find attendee/calendar data in XML response">>,
                      WithUsers(args, loop.users))
        ELSE Returned(TRUE, <<>>, WithUsers(args, loop.users))

-----------------------------------------------------------------------------
(* verify.doVerify and generator.doGenerate *)

\* server_info.hasextrasubs()
hasextrasubs(ex) == DOMAIN ex # {}

\* server_info.addextrasubs(items): the entries of items added or overwritten
addextrasubs(ex, items) ==
    [x \in DOMAIN ex \cup DOMAIN items |->
        IF x \in DOMAIN items THEN items[x] ELSE ex[x]]

\* every value of every argument put through extrasubs
ResolveArgs(args, ex) ==
    [name \in DOMAIN args |->
        [i \in 1..Len(args[name]) |-> extrasubs(args[name][i], ex)]]

\* self.args as the re-resolution loop leaves it
Reresolved(args, ex) == IF hasextrasubs(ex) THEN ResolveArgs(args, ex) ELSE args

\* dict((k, list(v)) for k, v in self.args.items())
CloneArgs(args) == [name \in DOMAIN args |-> [i \in 1..Len(args[name]) |-> args[name][i]]]

\* the responses a verifier is given
Statuses == {200, 404}
Cal(attendee, busyp) ==
    [parse |-> "ok", fbs |-> 1, attendees |-> <<attendee>>,
     fprops |-> IF busyp = <<>> THEN <<>>
                ELSE <<[fbtype |-> "BUSY", periods |-> busyp]>>,
     vevents |-> 1]
NotACalendar == [parse |-> "invalid"]
NotXml == [xml |-> FALSE]
Xml(cals) == [xml |-> TRUE, cals |-> cals]
Bodies ==
    {NotXml, Xml(<<>>), Xml(<<NotACalendar>>),
     Xml(<<Cal(<<"x">>, <<>>)>>),
     Xml(<<Cal(<<"x">>, << <<"p">> >>)>>),
     Xml(<<Cal(<<"y">>, << <<"p">> >>), Cal(<<"x">>, << <<"p">> >>)>>)}

\* the argument mappings a configuration gives; '$a:' is a captured variable
ArgMaps ==
    {NoArgs,
     [attendee |-> << <<"$a:">> >>],
     [attendee |-> << <<"x">> >>, busy |-> << <<"p">> >>],
     [attendee |-> << <<"x">>, <<"y">> >>, busy |-> << <<"p">> >>],
     [attendee |-> << <<"x">> >>, busy |-> << <<"p">> >>,
      events |-> << <<"1">> >>]}

Tokens == {"$a:"}
CapturedValues == {<<"x">>, <<"y">>, <<"x", "#", "#">>}

\* verify.doVerify(uri, response, respdata) with the free-busy verifier
DoVerify ==
    \E status \in Statuses, body \in Bodies :
        LET stored == Reresolved(vargs, extra)
            result == verify(status, body, CloneArgs(stored))
        IN  \* the verifier works on the clone: self.args keeps the lists it had
            /\ vargs' = stored
            /\ lastPlug' = [kind |-> "verify", before |-> vargs,
                            handed |-> CloneArgs(stored), after |-> stored,
                            extra |-> extra, status |-> status, body |-> body,
                            result |-> result]
            /\ UNCHANGED <<digestVars, uuidNext, ruri, count, extra, lastURI,
                           dataVars, gargs, pargs, bodyVars, featureVars,
                       respVars, lateVars>>

\* generator.doGenerate()
DoGenerate ==
    LET stored == Reresolved(gargs, extra)
    IN  /\ gargs' = stored
        /\ lastPlug' = [kind |-> "generate", before |-> gargs,
                        handed |-> CloneArgs(stored), after |-> stored,
                        extra |-> extra]
        /\ UNCHANGED <<digestVars, uuidNext, ruri, count, extra, lastURI,
                       dataVars, vargs, pargs, bodyVars, featureVars,
                       respVars, lateVars>>

\* a grab rule stores a value of the response under a variable
Capture ==
    \E tok \in Tokens, v \in CapturedValues :
        /\ extra' = addextrasubs(extra, [x \in {tok} |-> v])
        /\ UNCHANGED <<digestVars, uuidNext, ruri, count, lastURI, dataVars,
                       auxVars>>

InitVerify ==
    /\ InitDigest
    /\ InitCursor
    /\ ruri = [r \in Requests |-> <<>>]
    /\ dir = {}
    /\ pargs \in ArgMaps
    /\ vargs = pargs
    /\ gargs = pargs
    /\ lastPlug = NoPlug
    /\ InitBody
    /\ InitFeatures
    /\ InitResp
    /\ InitLate

NextVerify ==
    \/ DoVerify
    \/ DoGenerate
    \/ Capture

SpecVerify == InitVerify /\ [][NextVerify]_vars

Plugged == lastPlug.kind \in {"verify", "generate"}

\* C12: with extra substitutions in the store, the arguments a doVerify or
\* doGenerate call hands to the plugin are the parse-time arguments with every
\* token replaced by its value at the moment of the call.
C12_ArgsResolvedFromParseTime ==
    (Plugged /\ hasextrasubs(lastPlug.extra)) =>
        lastPlug.handed = ResolveArgs(pargs, lastPlug.extra)

\* C13: the stored argument mapping of a verify or generator object is the
\* same after a doVerify or doGenerate call as before it.
C13_StoredArgsUnchanged ==
    Plugged => lastPlug.after = lastPlug.before

Verified == lastPlug.kind = "verify"

\* C20: the free-busy verifier never raises; a status other than 200 gives
\* (False, a message naming the status); a body that is not XML, or a
\* calendar-data object that is not a calendar, gives (False, a non-empty
\* message).
C20_VerifierNeverRaises ==
    Verified =>
        /\ ~lastPlug.result.raised
        /\ lastPlug.status # 200 =>
               /\ ~lastPlug.result.passed
               /\ Contains(lastPlug.result.message, Str(lastPlug.status))
        /\ (lastPlug.status = 200 /\ ~lastPlug.body.xml) =>
               /\ ~lastPlug.result.passed
               /\ lastPlug.result.message # <<>>
        /\ (lastPlug.status = 200 /\ lastPlug.body = Xml(<<NotACalendar>>)) =>
               /\ ~lastPlug.result.passed
               /\ lastPlug.result.message # <<>>

-----------------------------------------------------------------------------
(* request.getData: the body of a request *)

\* server_info.subs(text, table): textual replacement of configured tokens
subs(text, table) == extrasubs(text, table)

\* the static substitutions of the configuration
StaticSubs == [x \in {"$host:"} |-> <<"h">>]
NoSubs == [x \in {} |-> <<>>]

RequestCount == "$request_count:"

\* fd.read(): every file has its own content; these hold calendar data
ReadFile(path) == path \o <<"UID:old", "SUMMARY:s", RequestCount>>

\* re.sub on the lines of the text: the UID line gets the fresh uuid, the
\* SUMMARY line gets ' #<count>' appended; texts here hold no DTSTART or DTEND
RECURSIVE generateCalendarData(_, _, _)
generateCalendarData(text, cnt, uuid) ==
    IF text = <<>> THEN <<>>
    ELSE (IF Head(text) = "UID:old" THEN <<"UID:">> \o uuid
          ELSE IF Head(text) = "SUMMARY:s"
          THEN <<"SUMMARY:s", " #">> \o Str(cnt)
          ELSE <<Head(text)>>)
         \o generateCalendarData(Tail(text), cnt, uuid)

\* Generator.generate(manager, args) of the configured generator plugin: text
\* made from the arguments it is handed
RECURSIVE Flatten(_)
Flatten(list) ==
    IF list = <<>> THEN <<>> ELSE Head(list) \o Flatten(Tail(list))
generate(args) == <<"G">> \o Flatten(Get(args, "attendee"))

\* mutant: the extra substitutions are applied before the count is stored
ResolveBodyCountLast(d, cnt, ex, content) ==
    LET raw == IF Len(d.value) # 0 THEN d.value
               ELSE IF d.filepath THEN content ELSE <<>>
        afterStatic == subs(raw, StaticSubs)
        afterExtra == extrasubs(afterStatic, ex)
        ex1 == addextrasubs(ex, [x \in {RequestCount} |-> Str(cnt)])
    IN  [afterStatic |-> afterStatic, extra |-> ex1, afterExtra |-> afterExtra,
         text |-> IF d.substitutions # NoSubs
                  THEN subs(afterExtra, d.substitutions) ELSE afterExtra]

\* getData up to the private substitutions: the text taken from the value or
\* the file, static substitutions, the count stored, extra substitutions,
\* private substitutions
ResolveBody(d, cnt, ex, content) ==
    LET raw == IF Len(d.value) # 0 THEN d.value
               ELSE IF d.filepath THEN content ELSE <<>>
        afterStatic == subs(raw, StaticSubs)
        ex1 == addextrasubs(ex, [x \in {RequestCount} |-> Str(cnt)])
        afterExtra == extrasubs(afterStatic, ex1)
    IN  [afterStatic |-> afterStatic, extra |-> ex1, afterExtra |-> afterExtra,
         text |-> IF d.substitutions # NoSubs
                  THEN subs(afterExtra, d.substitutions) ELSE afterExtra]

\* a declared body
Body(value, filepath, gen, calendar, plugin, table) ==
    [declared |-> TRUE, value |-> value, filepath |-> filepath,
     generate |-> gen, calendar |-> calendar, generator |-> plugin,
     substitutions |-> table]

\* the bodies a configuration declares: a literal, a file, a generator, a
\* calendar file to rewrite, a generator beside generate without a calendar
\* type, a literal with private substitutions
DataSpecs ==
    {NoData,
     Body(<<"$host:", "b", RequestCount>>, FALSE, FALSE, FALSE, FALSE, NoSubs),
     Body(<<>>, TRUE, FALSE, FALSE, FALSE, NoSubs),
     Body(<<>>, FALSE, FALSE, FALSE, TRUE, NoSubs),
     Body(<<>>, TRUE, TRUE, TRUE, FALSE, NoSubs),
     Body(<<"b">>, FALSE, TRUE, FALSE, TRUE, NoSubs),
     Body(<<"$p:", RequestCount>>, FALSE, FALSE, FALSE, FALSE,
          [x \in {"$p:"} |-> <<"q">>])}

\* one getData call by request r
GetData(r) ==
    LET path == IF nextpath.present THEN nextpath.value ELSE FilePath
        res == ResolveBody(data, count[r], extra, ReadFile(path))
        rewrite == data.generate /\ data.calendar
        delegate == ~data.generate /\ data.generator
        stored == Reresolved(gargs, res.extra)
        out == IF rewrite
               THEN generateCalendarData(res.text, count[r], Uuid4(uuidNext + 1))
               ELSE IF delegate THEN generate(CloneArgs(stored))
               ELSE res.text
    IN  IF ~data.declared
        THEN /\ lastData' = [req |-> r, declared |-> FALSE, count |-> count[r],
                             out |-> <<>>]
             /\ UNCHANGED <<digestVars, uuidNext, ruri, count, extra, lastURI,
                            dataVars, plugVars, data, featureVars,
                            respVars, lateVars>>
        ELSE /\ rewrite => uuidNext < MaxFresh
             /\ uuidNext' = IF rewrite THEN uuidNext + 1 ELSE uuidNext
             /\ extra' = res.extra
             /\ gargs' = IF delegate THEN stored ELSE gargs
             /\ lastPlug' = IF delegate
                            THEN [kind |-> "generate", before |-> gargs,
                                  handed |-> CloneArgs(stored),
                                  after |-> stored, extra |-> res.extra]
                            ELSE lastPlug
             /\ lastData' = [req |-> r, declared |-> TRUE, count |-> count[r],
                             afterStatic |-> res.afterStatic,
                             extra |-> res.extra,
                             afterExtra |-> res.afterExtra,
                             delegated |-> delegate,
                             generated |-> IF delegate
                                           THEN generate(CloneArgs(stored))
                                           ELSE <<>>,
                             out |-> out]
             /\ UNCHANGED <<digestVars, ruri, count, lastURI, dataVars, vargs,
                            pargs, data, featureVars, respVars, lateVars>>

-----------------------------------------------------------------------------
(* Captured values in URIs and bodies, repetition after repetition *)

\* request URIs that name a captured variable, and one that does not
SubsTemplates ==
    {<<"/", "$a:">>, <<"$a:", "/", "#", "#">>, <<"/", "b">>}

\* the arguments of the generator of a generated body
GenArgs == [attendee |-> << <<"$a:">> >>]

InitSubs ==
    /\ InitDigest
    /\ InitCursor
    /\ \E t \in SubsTemplates :
           ruri = [r \in Requests |-> IF r \in UriRequests THEN t ELSE <<>>]
    /\ dir = {}
    /\ vargs = NoArgs
    /\ pargs = GenArgs
    /\ gargs = GenArgs
    /\ lastPlug = NoPlug
    /\ data \in DataSpecs
    /\ lastData = NoGetData
    /\ InitFeatures
    /\ InitResp
    /\ InitLate

\* the caller repeats the request a bounded number of times
RepeatRequest(r) ==
    /\ count[r] < MaxReps
    /\ NextRepetition(r)

NextSubs ==
    \/ \E r \in UriRequests : GetURI(r)
    \/ \E r \in UriRequests : GetData(r)
    \/ \E r \in UriRequests : RepeatRequest(r)
    \/ Capture

SpecSubs == InitSubs /\ [][NextSubs]_vars

GotData == lastData.req # 0 /\ lastData.declared

\* C14: a getData call on a request with a declared body leaves the decimal
\* text of the repetition index in the extra substitutions under
\* '$request_count:'; the body is resolved with that entry, after the static
\* substitutions; and the entry keeps that value until the next getData call.
C14_RequestCountInjected ==
    GotData =>
        /\ RequestCount \in DOMAIN lastData.extra
        /\ IsDecimalOf(lastData.extra[RequestCount], lastData.count)
        /\ \A i \in 1..Len(lastData.afterStatic) :
               lastData.afterStatic[i] \notin DOMAIN StaticSubs
        /\ lastData.afterExtra = extrasubs(lastData.afterStatic, lastData.extra)
        /\ \A i \in 1..Len(lastData.afterExtra) :
               lastData.afterExtra[i] # RequestCount
        /\ RequestCount \in DOMAIN extra
        /\ extra[RequestCount] = lastData.extra[RequestCount]

\* the second repetition of a literal body that names the count, after the
\* first repetition left '1' in the store
C14_Witness ==
    /\ GotData
    /\ lastData.count = 2
    /\ data.value = <<"$host:", "b", RequestCount>>
    /\ lastData.afterExtra = <<"h", "b", "2">>
    /\ extra[RequestCount] = <<"2">>

PlainTemplate(uri) ==
    \A i \in 1..Len(uri) : uri[i] \notin {"*", "#", "?"}

\* C16: once a value is captured under '$a:', a getURI call on a URI template
\* naming '$a:' returns the template with the captured value in place of the
\* token.
C16_CapturedValueInUri ==
    (/\ lastURI.req # 0
     /\ "$a:" \in DOMAIN lastURI.extra
     /\ Contains(lastURI.template, <<"$a:">>)
     /\ PlainTemplate(lastURI.template)) =>
        lastURI.out = Joined(Pieces(lastURI.template, <<"$a:">>),
                             lastURI.extra["$a:"])

-----------------------------------------------------------------------------
(* Feature gates: missingFeatures and excludedFeatures *)

FeatureNames == {"ctag", "etag", "sync"}

\* mutant: the features the server has beyond the required ones
requestMissingSwapped(require, server) == server \ require

\* request.missingFeatures and request.excludedFeatures
requestMissingFeatures(require, server) == require \ server
requestExcludedFeatures(exclude, server) == exclude \cap server

\* verify.missingFeatures and verify.excludedFeatures
verifyMissingFeatures(require, server) == require \ server
verifyExcludedFeatures(exclude, server) == exclude \cap server

\* testsuite.missingFeatures and testsuite.excludedFeatures
testsuiteMissingFeatures(require, server) == require \ server
testsuiteExcludedFeatures(exclude, server) == exclude \cap server

\* o.missingFeatures()
MissingFeatures(o) ==
    LET result == IF o = "request"
                  THEN requestMissingFeatures(gate[o].require, features)
                  ELSE IF o = "verify"
                  THEN verifyMissingFeatures(gate[o].require, features)
                  ELSE testsuiteMissingFeatures(gate[o].require, features)
    IN  /\ gateOut' = [gateOut EXCEPT ![o].missing = Present(result)]
        /\ UNCHANGED <<digestVars, uuidNext, ruri, count, extra, lastURI,
                       dataVars, plugVars, bodyVars, features, gate,
                       respVars, lateVars>>

\* o.excludedFeatures()
ExcludedFeatures(o) ==
    LET result == IF o = "request"
                  THEN requestExcludedFeatures(gate[o].exclude, features)
                  ELSE IF o = "verify"
                  THEN verifyExcludedFeatures(gate[o].exclude, features)
                  ELSE testsuiteExcludedFeatures(gate[o].exclude, features)
    IN  /\ gateOut' = [gateOut EXCEPT ![o].excluded = Present(result)]
        /\ UNCHANGED <<digestVars, uuidNext, ruri, count, extra, lastURI,
                       dataVars, plugVars, bodyVars, features, gate,
                       respVars, lateVars>>

\* any server feature set; a request, a verifier and a test suite configured
\* with the same required and excluded sets
InitGates ==
    /\ InitDigest
    /\ InitCursor
    /\ InitPlug
    /\ InitBody
    /\ ruri = [r \in Requests |-> <<>>]
    /\ dir = {}
    /\ features \in SUBSET FeatureNames
    /\ \E req \in SUBSET FeatureNames, exc \in SUBSET FeatureNames :
           gate = [o \in Owners |-> [require |-> req, exclude |-> exc]]
    /\ gateOut = NoGateOut
    /\ InitResp
    /\ InitLate

NextGates ==
    \/ \E o \in Owners : MissingFeatures(o)
    \/ \E o \in Owners : ExcludedFeatures(o)

SpecGates == InitGates /\ [][NextGates]_vars

\* C15: missingFeatures returns the required features the server lacks and
\* excludedFeatures the excluded features the server has; the request, verify
\* and testsuite implementations agree on the same sets; no call changes the
\* required, excluded or server feature sets.
C15_FeatureGates ==
    /\ [](\A o \in Owners :
            /\ gateOut[o].missing.present =>
                   \A f \in FeatureNames :
                       f \in gateOut[o].missing.value
                           <=> (f \in gate[o].require /\ f \notin features)
            /\ gateOut[o].excluded.present =>
                   \A f \in FeatureNames :
                       f \in gateOut[o].excluded.value
                           <=> (f \in gate[o].exclude /\ f \in features)
            /\ \A p \in Owners :
                   (gate[o] = gate[p]) =>
                       /\ (gateOut[o].missing.present
                           /\ gateOut[p].missing.present) =>
                              gateOut[o].missing = gateOut[p].missing
                       /\ (gateOut[o].excluded.present
                           /\ gateOut[p].excluded.present) =>
                              gateOut[o].excluded = gateOut[p].excluded)
    /\ [][gate' = gate /\ features' = features]_vars

\* the example of the specification: ctag required and etag offered gives
\* ctag missing; ctag excluded and ctag, etag offered gives ctag excluded
C15_Witness ==
    /\ features = {"ctag", "etag"}
    /\ gate["request"] = [require |-> {"ctag", "sync"}, exclude |-> {"ctag"}]
    /\ gateOut["request"].missing = Present({"sync"})
    /\ gateOut["request"].excluded = Present({"ctag"})
    /\ gateOut["testsuite"].missing = Present({"sync"})
    /\ gateOut["verify"].excluded = Present({"ctag"})

-----------------------------------------------------------------------------
(* Algorithm names *)

\* name.lower() for the algorithm names a challenge carries
Lower(name) ==
    IF name = "MD5" THEN "md5"
    ELSE IF name = "MD5-sess" THEN "md5-sess"
    ELSE IF name = "SHA" THEN "sha"
    ELSE name

\* C17: when the challenge used names an algorithm, the call returns a header
\* if the name is MD5, MD5-sess or SHA in any letter case, and raises the
\* unrecognized-algorithm error for every other name.
C17_AlgorithmNamesAnyCase ==
    (ReachedBuild /\ UsedDetails.algorithm # None) =>
        IF Lower(UsedDetails.algorithm) \in {"md5", "md5-sess", "sha"}
        THEN last.outcome = "header"
        ELSE last.outcome = "algorithm_error"

\* C19: a digest probe is an OPTIONS request without credentials, sent to the
\* host, port and unix socket the request itself targets.
C19_ProbeGoesToRequestTarget ==
    Probed =>
        /\ last.probeMethod = "OPTIONS"
        /\ \A h \in last.probeHeaders : h.name # "Authorization"
        /\ last.probeTarget = RequestTarget(last.req)

-----------------------------------------------------------------------------
(* calcResponse called on its own *)

\* the arguments: with and without a nonce count, a client nonce, a qop and
\* an entity hash
RespInputs ==
    [given : {TRUE}, HA1 : {"h1", "h2"}, algo : {"md5", "sha"}, nonce : {"n1"},
     nc : {NoText, Hex8(1)}, cnonce : {None, "c1"},
     qop : {None, "auth", "auth-int"}, method : {"GET"}, uri : {<<"a">>},
     entity : {None, "e1"}]

\* one calcResponse call with the arguments respIn
CalcResponse ==
    LET raised == calcResponseRaises(respIn.HA1, respIn.algo, respIn.nonce,
                                     respIn.nc, respIn.cnonce, respIn.qop,
                                     respIn.method, respIn.uri, respIn.entity)
    IN  /\ respOut' = Present(
               IF raised # "none" THEN [raised |-> TRUE, exc |-> raised]
               ELSE [raised |-> FALSE,
                     value |-> calcResponse(respIn.HA1, respIn.algo,
                                            respIn.nonce, respIn.nc,
                                            respIn.cnonce, respIn.qop,
                                            respIn.method, respIn.uri,
                                            respIn.entity)])
        /\ UNCHANGED <<digestVars, uuidNext, ruri, count, extra, lastURI,
                       dataVars, plugVars, bodyVars, featureVars, respIn,
                       lateVars>>

\* any arguments, no call made yet
InitResponse ==
    /\ InitDigest
    /\ InitCursor
    /\ InitPlug
    /\ InitBody
    /\ InitFeatures
    /\ InitLate
    /\ ruri = [r \in Requests |-> <<>>]
    /\ dir = {}
    /\ respIn \in RespInputs
    /\ respOut = Absent

NextResponse == CalcResponse

SpecResponse == InitResponse /\ [][NextResponse]_vars

\* hash(method:digest-uri), with ':entity-hash' appended for qop 'auth-int'
ExpectedHA2(in) ==
    <<"hex", algorithms[in.algo],
      IF in.qop = "auth-int" THEN <<in.method, ":", in.uri, ":", in.entity>>
      ELSE <<in.method, ":", in.uri>> >>

\* hash(HA1:nonce:nc:cnonce:qop:HA2) and hash(HA1:nonce:HA2)
LongForm(in) ==
    <<"hex", algorithms[in.algo],
      <<in.HA1, ":", in.nonce, ":", in.nc, ":", in.cnonce, ":", in.qop, ":",
        ExpectedHA2(in)>> >>
ShortForm(in) ==
    <<"hex", algorithms[in.algo],
      <<in.HA1, ":", in.nonce, ":", ExpectedHA2(in)>> >>

-----------------------------------------------------------------------------
(* Generated bodies *)

\* C21: when a generator is configured and calendar rewriting does not apply,
\* getData calls the generator and returns exactly its output.
C21_GeneratorOutputReturned ==
    (GotData /\ data.generator /\ ~(data.generate /\ data.calendar)) =>
        /\ lastData.delegated
        /\ lastData.out = lastData.generated

-----------------------------------------------------------------------------
(* hasNextData *)

\* C22: a hasNextData call leaves the cursor and the pinned path as they
\* were, and with such calls in between getNextData still pins the visible
\* entries one by one in ascending order, none skipped or repeated.
C22_HasNextDataNonConsuming ==
    /\ lastHas.called =>
           /\ lastHas.cursorAfter = lastHas.cursor
           /\ lastHas.pathAfter = lastHas.path
    /\ \A i \in 1..Len(yielded) : yielded[i] \in Visible(dir)
    /\ \A i \in 1..(Len(yielded) - 1) : StrLess(yielded[i], yielded[i + 1])
    /\ dataList.present =>
           Len(yielded) + Len(dataList.value) = Cardinality(Visible(dir))

\* hasNextData called in the middle of an iteration: one of two entries is
\* pinned, one is left in the cursor
C22_Witness ==
    /\ dir = {<<"a">>, <<"b">>}
    /\ lastHas.called
    /\ lastHas.cursor = Present(<< <<"b">> >>)
    /\ lastHas.path = Present(PathJoin(FilePath, <<"a">>))
    /\ dataList = lastHas.cursor
    /\ yielded = << <<"a">> >>

\* whether the next getNextData call returns True with cursor c
WouldReturnTrue(c) ==
    IF c.present THEN Len(c.value) # 0 ELSE Visible(dir) # {}

\* C23: hasNextData returns True exactly when the next getNextData call would
\* return True.
C23_HasNextAgreesWithGetNext ==
    lastHas.called => (lastHas.ret <=> WouldReturnTrue(lastHas.cursor))

-----------------------------------------------------------------------------
(* One placeholder kind per URI *)

IsDigit(c) == \E v \in 0..9 : DecDigits[v + 1] = c

\* the result holds the repetition index: a '##' was replaced
CountIn(out) == \E i \in 1..Len(out) : IsDigit(out[i])

\* the result holds a generated identifier: a '**' was replaced
UuidIn(out) ==
    \E i \in 1..Len(out) : out[i] \notin UriAlphabet /\ ~IsDigit(out[i])

\* C24: a getURI call never replaces both kinds of placeholder, and replaces
\* '##' only in a URI without any '**'.
C24_OnePlaceholderKind ==
    lastURI.req # 0 =>
        /\ ~(CountIn(lastURI.out) /\ UuidIn(lastURI.out))
        /\ CountIn(lastURI.out) => ~Contains(lastURI.template, <<"*", "*">>)

\* a URI with both kinds: only the '**' is replaced
C24_Witness ==
    /\ lastURI.req # 0
    /\ lastURI.template = <<"*", "*", "a", "#", "#">>
    /\ lastURI.out = Uuid4(1) \o <<"a", "#", "#">>

-----------------------------------------------------------------------------
(* Parsing a challenge from the WWW-Authenticate headers *)

\* c.lower()
LowerChar(c) ==
    LET upper == <<"A", "B", "C", "D", "E", "F", "G", "H", "I", "J", "K", "L", "M",
                   "N", "O", "P", "Q", "R", "S", "T", "U", "V", "W", "X", "Y", "Z">>
        lower == <<"a", "b", "c", "d", "e", "f", "g", "h", "i", "j", "k", "l", "m",
                   "n", "o", "p", "q", "r", "s", "t", "u", "v", "w", "x", "y", "z">>
    IN  IF \E i \in 1..26 : upper[i] = c
        THEN lower[CHOOSE i \in 1..26 : upper[i] = c]
        ELSE c

\* item.lower().startswith("digest ")
IsDigestHeader(item) ==
    /\ Len(item) >= 7
    /\ [i \in 1..7 |-> LowerChar(item[i])] = <<"d", "i", "g", "e", "s", "t", " ">>

\* s.split(sep)
RECURSIVE split(_, _)
split(s, sep) ==
    IF ~Contains(s, sep) THEN <<s>>
    ELSE LET i == Find(s, sep)
         IN  <<SubSeq(s, 1, i)>> \o
                 split(SubSeq(s, i + Len(sep) + 1, Len(s)), sep)

\* s.split(sep, 1)
split1(s, sep) ==
    IF ~Contains(s, sep) THEN <<s>>
    ELSE LET i == Find(s, sep)
         IN  <<SubSeq(s, 1, i), SubSeq(s, i + Len(sep) + 1, Len(s))>>

\* s.strip()
strip(s) ==
    LET inked == {i \in 1..Len(s) : s[i] # " "}
    IN  IF inked = {} THEN <<>>
        ELSE SubSeq(s, Min(inked), CHOOSE i \in inked : \A j \in inked : j <= i)

\* unq: the value without the double quotes around it, when it has them
unq(s) ==
    IF s[1] = "\"" /\ s[Len(s)] = "\"" THEN SubSeq(s, 2, Len(s) - 1) ELSE s

\* the loop over the parts of one challenge: the details, or the error the
\* first part that cannot be taken apart raises
ParseDetails(wwwauthorize) ==
    LET parts == split(wwwauthorize, <<",">>)
        pairs == [i \in 1..Len(parts) |-> split1(parts[i], <<"=">>)]
        Bad(i) == Len(pairs[i]) # 2 \/ strip(pairs[i][2]) = <<>>
        keys == {strip(pairs[i][1]) : i \in 1..Len(parts)}
        LastOf(k) == CHOOSE i \in 1..Len(parts) :
                         /\ strip(pairs[i][1]) = k
                         /\ \A j \in 1..Len(parts) :
                                strip(pairs[j][1]) = k => j <= i
    IN  IF \E i \in 1..Len(parts) : Bad(i)
        THEN LET i == Min({j \in 1..Len(parts) : Bad(j)})
             IN  [raised |-> IF Len(pairs[i]) # 2 THEN "ValueError"
                             ELSE "IndexError"]
        ELSE [raised |-> "none",
              details |-> [k \in keys |-> unq(strip(pairs[LastOf(k)][2]))]]

\* the loop over the WWW-Authenticate headers: the first digest item is
\* parsed and stored under the user with its expiry
ParseHeaders(items, user, t) ==
    IF \E i \in 1..Len(items) : IsDigestHeader(items[i])
    THEN LET i == Min({j \in 1..Len(items) : IsDigestHeader(items[j])})
             parsed == ParseDetails(SubSeq(items[i], 8, Len(items[i])))
         IN  IF parsed.raised # "none"
             THEN [raised |-> parsed.raised, cache |-> EmptyMap]
             ELSE [raised |-> "none",
                   cache |-> [u \in {user} |->
                                 [details |-> parsed.details,
                                  expiry |-> t + NonceLifetime]]]
    ELSE [raised |-> "none", cache |-> EmptyMap]

\* a parameter of a challenge, and its text on the wire
Param(k, v, q) == [key |-> k, value |-> v, quoted |-> q]
ParamText(p) ==
    p.key \o <<"=">> \o
        (IF p.quoted THEN <<"\"">> \o p.value \o <<"\"">> ELSE p.value)
Params ==
    {Param(<<"r", "e", "a", "l", "m">>, <<"R">>, TRUE),
     Param(<<"n", "o", "n", "c", "e">>, <<"n", "1">>, TRUE),
     Param(<<"q", "o", "p">>, <<"a", "u", "t", "h">>, TRUE),
     Param(<<"q", "o", "p">>, <<"a", "u", "t", "h", ",", "a", "u", "t", "h", "-", "i", "n", "t">>, TRUE),
     Param(<<"a", "l", "g", "o", "r", "i", "t", "h", "m">>, <<"M", "D", "5">>, FALSE),
     Param(<<"o", "p", "a", "q", "u", "e">>, <<>>, TRUE)}
\* a WWW-Authenticate header: a scheme and parameters, and its text
HeaderItem(s, ps, sep) == [scheme |-> s, params |-> ps, sep |-> sep]
RECURSIVE ParamsText(_, _)
ParamsText(ps, sep) ==
    IF Len(ps) = 1 THEN ParamText(ps[1])
    ELSE ParamText(ps[1]) \o sep \o ParamsText(Tail(ps), sep)
HeaderText(item) == item.scheme \o <<" ">> \o ParamsText(item.params, item.sep)
DigestItems ==
    {HeaderItem(s, ps, sep) :
        s \in {<<"D", "i", "g", "e", "s", "t">>, <<"D", "I", "G", "E", "S", "T">>},
        ps \in {q \in (Params \X Params) \cup {<<p>> : p \in Params} :
                   \A i, j \in 1..Len(q) : q[i].key = q[j].key => i = j},
        sep \in {<<",">>, <<",", " ">>}}
\* the header lists of a 401: a digest challenge alone, after a basic one,
\* or ahead of another digest challenge; or a basic challenge alone
HeaderItemLists ==
    LET basic == HeaderItem(<<"B", "a", "s", "i", "c">>,
                            <<Param(<<"r", "e", "a", "l", "m">>, <<"B">>, TRUE)>>,
                            <<",">>)
        other == HeaderItem(<<"D", "i", "g", "e", "s", "t">>,
                            <<Param(<<"r", "e", "a", "l", "m">>, <<"O">>, TRUE)>>,
                            <<",">>)
    IN  {<<d>> : d \in DigestItems} \cup {<<basic, d>> : d \in DigestItems}
            \cup {<<d, other>> : d \in DigestItems} \cup {<<basic>>}

\* the headers of a 401 are parsed for the user of a request
ParseWwwAuthenticate ==
    /\ parseIn.given
    /\ ~parseOut.present
    /\ LET texts == [i \in 1..Len(parseIn.items) |->
                        HeaderText(parseIn.items[i])]
           res == ParseHeaders(texts, EffectiveUser(parseIn.req), now)
       IN  parseOut' = [present |-> TRUE, raised |-> res.raised,
                        cache |-> res.cache]
    /\ UNCHANGED <<digestVars, uuidNext, ruri, count, extra, lastURI,
                   dataVars, plugVars, bodyVars, featureVars, respVars,
                   parseIn, raceVars, hdrVars>>

\* any headers for any request, not parsed yet
InitParsing ==
    /\ InitDigest
    /\ InitCursor
    /\ InitPlug
    /\ InitBody
    /\ InitFeatures
    /\ InitResp
    /\ InitRace
    /\ InitHdr
    /\ ruri = [r \in Requests |-> <<>>]
    /\ dir = {}
    /\ parseIn \in {[given |-> TRUE, req |-> r, items |-> l] :
                       r \in Requests, l \in HeaderItemLists}
    /\ parseOut = Absent

NextParsing == ParseWwwAuthenticate

SpecParse == InitParsing /\ [][NextParsing]_vars

\* the first digest item among the headers parsed, when there is one
HasDigest == \E i \in 1..Len(parseIn.items) :
                 parseIn.items[i].scheme # <<"B", "a", "s", "i", "c">>
FirstDigest ==
    parseIn.items[Min({i \in 1..Len(parseIn.items) :
                          parseIn.items[i].scheme # <<"B", "a", "s", "i", "c">>})]
DeclaredDetails(item) ==
    [k \in {item.params[i].key : i \in 1..Len(item.params)} |->
        (CHOOSE p \in {item.params[i] : i \in 1..Len(item.params)} :
             p.key = k).value]

\* C25: parsing the headers of a 401 that hold a digest challenge raises
\* nothing and stores, under the effective user, the mapping from each key of
\* the first digest challenge to its value without the quotes, with the
\* expiry now + 600; a quoted value may hold a comma.
C25_ChallengeParsed ==
    (parseOut.present /\ HasDigest) =>
        /\ parseOut.raised = "none"
        /\ DOMAIN parseOut.cache = {EffectiveUser(parseIn.req)}
        /\ parseOut.cache[EffectiveUser(parseIn.req)] =
               [details |-> DeclaredDetails(FirstDigest),
                expiry |-> now + 600]

-----------------------------------------------------------------------------
(* Executors sharing the nonce-count table *)

\* request.nc is a class attribute: every request object of the process, in
\* whichever executor it runs, updates the same table.  The update is a test,
\* then a store or a load and a store, then a load for the header, and
\* nothing keeps another executor from running between two of them.
RaceNonces == {"n1", "n2"}
RaceRest == <<now, ticks, digestCache, openConns, calls, last, uuidNext, ruri,
              count, extra, lastURI, dataVars, plugVars, bodyVars,
              featureVars, respVars, parseVars, hdrVars>>

\* 'if self.nc.get(nonce) is None' for the qop-bearing details of a nonce
TestCount(e, n) ==
    /\ pc[e] = "idle"
    /\ Len(issued[e]) < MaxBuilds
    /\ pc' = [pc EXCEPT ![e] = IF n \in DOMAIN nc THEN "load" ELSE "set"]
    /\ seen' = [seen EXCEPT ![e] = [present |-> TRUE, nonce |-> n, value |-> 0]]
    /\ UNCHANGED <<nc, built, issued, RaceRest>>

\* 'self.nc[nonce] = 1'
SetCount(e) ==
    /\ pc[e] = "set"
    /\ nc' = [n \in DOMAIN nc \cup {seen[e].nonce} |->
                 IF n = seen[e].nonce THEN 1 ELSE nc[n]]
    /\ pc' = [pc EXCEPT ![e] = "format"]
    /\ UNCHANGED <<seen, built, issued, RaceRest>>

\* 'self.nc[nonce] += 1': the value is read
LoadCount(e) ==
    /\ pc[e] = "load"
    /\ seen' = [seen EXCEPT ![e].value = nc[seen[e].nonce]]
    /\ pc' = [pc EXCEPT ![e] = "store"]
    /\ UNCHANGED <<nc, built, issued, RaceRest>>

\* 'self.nc[nonce] += 1': the value read, plus one, is written
StoreCount(e) ==
    /\ pc[e] = "store"
    /\ nc' = [nc EXCEPT ![seen[e].nonce] = seen[e].value + 1]
    /\ pc' = [pc EXCEPT ![e] = "format"]
    /\ UNCHANGED <<seen, built, issued, RaceRest>>

\* 'details['nc'] = "%08x" % self.nc[nonce]': the header's nc is read
FormatCount(e) ==
    /\ pc[e] = "format"
    /\ issued' = [issued EXCEPT ![e] =
                     Append(@, [nonce |-> seen[e].nonce,
                                nc |-> Hex8(nc[seen[e].nonce])])]
    /\ built' = NcBump(built, seen[e].nonce)
    /\ pc' = [pc EXCEPT ![e] = "idle"]
    /\ UNCHANGED <<nc, seen, RaceRest>>

InitExecutors ==
    /\ InitDigest
    /\ InitCursor
    /\ InitPlug
    /\ InitBody
    /\ InitFeatures
    /\ InitResp
    /\ InitParse
    /\ InitRace
    /\ InitHdr
    /\ ruri = [r \in Requests |-> <<>>]
    /\ dir = {}

NextExecutors ==
    \E e \in Executors :
        \/ \E n \in RaceNonces : TestCount(e, n)
        \/ SetCount(e)
        \/ LoadCount(e)
        \/ StoreCount(e)
        \/ FormatCount(e)

SpecRace == InitExecutors /\ [][NextExecutors]_vars

\* every header built so far, by either executor
HeadersIssued ==
    {x \in Executors \X (1..MaxBuilds) : x[2] <= Len(issued[x[1]])}
IssuedAt(x) == issued[x[1]][x[2]]
Quiescent == \A e \in Executors : pc[e] = "idle"

\* C26: when executors build qop-bearing headers concurrently, no two headers
\* for one nonce carry the same nc, and once every build has finished the
\* count of each nonce is the number of headers built for it.
C26_NoIncrementLost ==
    /\ \A x, y \in HeadersIssued :
           (IssuedAt(x).nonce = IssuedAt(y).nonce
               /\ IssuedAt(x).nc = IssuedAt(y).nc) => x = y
    /\ Quiescent => \A n \in DOMAIN built : nc[n] = built[n]

-----------------------------------------------------------------------------
(* The parameters of the header *)

\* the algorithm the digest of the last call was computed with
AlgorithmUsed ==
    IF UsedDetails.algorithm = None THEN "md5" ELSE UsedDetails.algorithm

\* C27: a returned header, with or without qop, names the algorithm its
\* digest was computed with (md5 when the challenge named none) and the
\* username, realm and nonce the digest was computed from.
C27_HeaderNamesWhatWasUsed ==
    (Called /\ last.outcome = "header") =>
        /\ last.header.algorithm = AlgorithmUsed
        /\ last.header.response[2] = algorithms[AlgorithmUsed]
        /\ last.header.username = last.user
        /\ last.header.realm = UsedDetails.realm
        /\ last.header.nonce = UsedDetails.nonce

-----------------------------------------------------------------------------
(* A build that fails *)

\* C29: a call that fails with the unrecognized-algorithm error leaves the
\* nonce-count table as it was before the call.
C29_FailedBuildKeepsCounts ==
    (Called /\ last.outcome = "algorithm_error") => nc = last.ncBefore

-----------------------------------------------------------------------------
(* getHeaders *)

\* the configuration: the server asks for digest authentication, the first
\* request authenticates and the second does not
SiAuthtype == "digest"
ReqAuth == <<TRUE, FALSE>>

\* the requests whose headers are assembled
HeaderRequests == {1}

\* the headers a request declares, as parseXML stores them
HeaderTemplates ==
    {[x \in {"Depth"} |-> <<"1">>],
     [x \in {"If-Match"} |-> <<"$a:">>],
     [x \in {"Depth", "If-Match"} |->
         IF x = "Depth" THEN <<"1">> ELSE <<"e", "$a:">>]}

\* the bodies a request with headers declares
HeaderBodies ==
    {NoData, Body(<<"b">>, FALSE, FALSE, FALSE, FALSE, NoSubs)}

\* data.content_type
ContentType(d) == IF d.calendar THEN <<"text/calendar">> ELSE <<"text/plain">>

\* hdrs[name] = value
Put(hdrs, name, value) ==
    [x \in DOMAIN hdrs \cup {name} |-> IF x = name THEN value ELSE hdrs[x]]

\* gethttpbasicauth: 'Basic ' and the base64 text of user:password
gethttpbasicauth(r) ==
    <<"Basic ", "base64(" \o EffectiveUser(r) \o ":" \o EffectivePswd(r) \o ")">>

\* one getHeaders call by request r: the values are resolved in the
\* request's own mapping, the content type and the authorization are put in
\* it, and it is returned
GetHeaders(r) ==
    LET resolved == [k \in DOMAIN headers[r] |->
                        extrasubs(headers[r][k], extra)]
        typed == IF data.declared
                 THEN Put(resolved, "Content-Type", ContentType(data))
                 ELSE resolved
        Done(hdrs, raised) ==
            /\ headers' = [headers EXCEPT ![r] = hdrs]
            /\ lastHeaders' = [req |-> r, raised |-> raised, extra |-> extra,
                               out |-> hdrs]
        \* the text of the digest header: one piece, no substitution token
        HeaderValue(h) == <<ToString(h)>>
        Digest(po, delay) ==
            /\ DigestSteps(r, po, delay)
            /\ IF last'.outcome = "header"
               THEN Done(Put(typed, "Authorization", HeaderValue(last'.header)),
                         FALSE)
               ELSE IF last'.outcome = "empty"
               THEN Done(Put(typed, "Authorization", <<>>), FALSE)
               ELSE Done(typed, TRUE)
    IN  /\ IF ReqAuth[r] /\ SiAuthtype = "digest"
           THEN IF CacheHit(digestCache, EffectiveUser(r), now)
                THEN Digest(NoProbe, 0)
                ELSE \E po \in ProbeOutcomes :
                         \E delay \in (IF ParseChallenge(po, now).present
                                        THEN ProbeDelays ELSE {0}) :
                             Digest(po, delay)
           ELSE /\ IF ReqAuth[r] /\ SiAuthtype = "basic"
                   THEN Done(Put(typed, "Authorization", gethttpbasicauth(r)),
                             FALSE)
                   ELSE Done(typed, FALSE)
                /\ UNCHANGED <<digestVars, uuidNext>>
        /\ UNCHANGED <<ruri, count, extra, lastURI, dataVars, plugVars,
                       bodyVars, featureVars, respVars, parseVars, raceVars,
                       pheaders>>

InitHeaders ==
    /\ InitDigest
    /\ InitCursor
    /\ InitPlug
    /\ InitFeatures
    /\ InitResp
    /\ InitParse
    /\ InitRace
    /\ ruri = DigestRuris
    /\ dir = {}
    /\ data \in HeaderBodies
    /\ lastData = NoGetData
    /\ \E t \in HeaderTemplates : headers = [r \in Requests |-> t]
    /\ pheaders = headers
    /\ lastHeaders = NoGetHeaders

NextHeaders ==
    \/ \E r \in HeaderRequests : GetHeaders(r)
    \/ Capture

SpecHeaders == InitHeaders /\ [][NextHeaders]_vars

GotHeaders == lastHeaders.req # 0 /\ ~lastHeaders.raised

\* C28: getHeaders leaves the headers the request declares as they were
\* stored, and returns for each of them the declared value resolved with the
\* extra substitutions of the moment of the call.
C28_HeadersResolvedFromTemplates ==
    /\ \A r \in Requests : \A k \in DOMAIN pheaders[r] :
           headers[r][k] = pheaders[r][k]
    /\ GotHeaders =>
           \A k \in DOMAIN pheaders[lastHeaders.req] :
               lastHeaders.out[k] =
                   extrasubs(pheaders[lastHeaders.req][k], lastHeaders.extra)

-----------------------------------------------------------------------------
(* Free-busy replies for several attendees *)

\* a calendar-data object holding one VFREEBUSY for attendee a with the
\* periods, and the number of events, that args expects
Expected(cal, a, args) ==
    /\ cal.parse = "ok"
    /\ cal.fbs = 1
    /\ a \in ToSet(cal.attendees)
    /\ \A i \in 1..Len(cal.fprops) : cal.fprops[i].fbtype \in FbTypes
    /\ PeriodsOf(cal.fprops, "BUSY") = Get(args, "busy")
    /\ PeriodsOf(cal.fprops, "BUSY-TENTATIVE") = Get(args, "tentative")
    /\ PeriodsOf(cal.fprops, "BUSY-UNAVAILABLE") = Get(args, "unavailable")
    /\ Len(Get(args, "events")) = 1 =>
           /\ IsNumeral(Get(args, "events")[1])
           /\ cal.vevents = DecimalValue(Get(args, "events")[1])

\* the reply holds an expected object for every attendee, and nothing else
FullReply(body, args) ==
    /\ body.xml
    /\ \A i \in 1..Len(Get(args, "attendee")) :
           \E j \in 1..Len(body.cals) :
               Expected(body.cals[j], Get(args, "attendee")[i], args)
    /\ \A j \in 1..Len(body.cals) :
           \E i \in 1..Len(Get(args, "attendee")) :
               Expected(body.cals[j], Get(args, "attendee")[i], args)

\* C30: a 200 reply holding, for each expected attendee, a calendar with one
\* VFREEBUSY that names the attendee and has the expected periods passes with
\* an empty message, for any number of attendees; and a reply passes only if
\* every expected attendee is named by one of its calendars.
C30_AllAttendeesVerified ==
    Verified =>
        /\ (lastPlug.status = 200 /\ FullReply(lastPlug.body, lastPlug.handed)) =>
               /\ ~lastPlug.result.raised
               /\ lastPlug.result.passed
               /\ lastPlug.result.message = <<>>
        /\ (~lastPlug.result.raised /\ lastPlug.result.passed) =>
               \A i \in 1..Len(Get(lastPlug.handed, "attendee")) :
                   \E j \in 1..Len(lastPlug.body.cals) :
                       Get(lastPlug.handed, "attendee")[i]
                           \in ToSet(lastPlug.body.cals[j].attendees)

====
